---------------------------- MODULE Spec2Model ----------------------------
(***************************************************************************)
(* The task scheduler of meilisearch-lib (tasks/scheduler.rs): the pending *)
(* task queue (TaskList, TaskQueue), the batching policy (make_batch) and  *)
(* the Scheduler built on them (prepare, finish, schedule_job).            *)
(*                                                                         *)
(* Both priority structures are std::collections::BinaryHeap; they are     *)
(* modelled as the arrays the heap keeps, with its push (sift_up) and pop  *)
(* (swap the last element to the root, sift_down_to_bottom, sift_up), so   *)
(* that the position of a TaskList in the outer heap is computed rather    *)
(* than assumed.  Sequences are 1-based: the root is data[1], the parent   *)
(* of p is p \div 2 and its children are 2p and 2p+1.                      *)
(***************************************************************************)
EXTENDS Integers, Sequences, FiniteSets, TLC

VARIABLES
    tasks,                  \* Scheduler.tasks : TaskQueue {index_tasks, queue}
    processing,             \* Scheduler.processing : Vec<TaskId>
    jobs,                   \* Scheduler.jobs : VecDeque<Job>
    next_fetched_task_id,   \* Scheduler.next_fetched_task_id
    config,                 \* Scheduler.config : SchedulerConfig
    store,                  \* the TaskStore: the tasks by id (id = position - 1)
    next_id,                \* the next TaskId the producer of tasks hands out
    notified,               \* the watch channel of notifier: the values sent
                            \* that the update loop has not seen yet
    result,                 \* what the last prepare() returned, until the
                            \* update loop has dealt with it
    returned,               \* history: the ids returned in a Batch so far
    index_of,               \* history: the index_uid of every task inserted
    batch,                  \* history: the tasks the last make_batch selected
    scheduled,              \* history: the jobs not returned yet, in the
                            \* order of their schedule_job calls
    last_batched            \* history: per index, the largest id batched so far

vars == <<tasks, processing, jobs, next_fetched_task_id, config, store,
          next_id, notified, result, returned, index_of, batch, scheduled,
          last_batched>>

(***************************************************************************)
(* Bounds of the model.                                                    *)
(***************************************************************************)
\* number of tasks inserted in a behaviour of SpecQueue
MaxTasks == 3
\* number of tasks inserted in a behaviour of SpecPlain
MaxTasksPlain == 5
\* number of tasks inserted in a behaviour of SpecSingle (one index)
MaxTasksSingle == 6
\* number of tasks registered in the store in a behaviour of Spec
MaxStoreTasks == 3
\* largest max_batch_size tried
MaxBatchSize == 3
\* number of notify() calls the update loop has not seen
MaxNotifies == 3

Indexes == {"a", "b"}
\* document counts of the document tasks
Numbers == {1, 2}
\* Option<usize>
None == <<>>
Some(n) == <<n>>
\* values of max_documents_per_batch tried
DocCaps == {None, Some(0), Some(1), Some(3)}

(***************************************************************************)
(* TaskType, PendingTask                                                   *)
(***************************************************************************)
DocumentAddition(n) == [variant |-> "DocumentAddition", number |-> n]
DocumentsUpdate(n) == [variant |-> "DocumentsUpdate", number |-> n]
Other == [variant |-> "Other", number |-> 0]

\* TaskContent, as far as the scheduler reads it
DocumentAdditionContent(strategy, n) ==
    [tag |-> "DocumentAddition", merge_strategy |-> strategy,
     documents_count |-> n]
IndexDeletion ==
    [tag |-> "IndexDeletion", merge_strategy |-> "", documents_count |-> 0]

TaskContents ==
    {DocumentAdditionContent(s, n) :
        s \in {"ReplaceDocuments", "UpdateDocuments"}, n \in Numbers}
    \cup {IndexDeletion}

\* mutant: any two document tasks are of equal type
TaskTypeEqAnyDocument(k1, k2) ==
    /\ k1.variant \in {"DocumentAddition", "DocumentsUpdate"}
    /\ k2.variant \in {"DocumentAddition", "DocumentsUpdate"}

\* impl PartialEq for TaskType: same document variant; Other equals nothing
TaskTypeEq(k1, k2) ==
    \/ k1.variant = "DocumentAddition" /\ k2.variant = "DocumentAddition"
    \/ k1.variant = "DocumentsUpdate" /\ k2.variant = "DocumentsUpdate"

\* Ordering as an integer: Less = -1, Equal = 0, Greater = 1
IdCmp(x, y) == IF x < y THEN -1 ELSE IF x = y THEN 0 ELSE 1

OrderingReverse(o) == 0 - o

\* mutant: the order of the ids, not reversed
PendingTaskCmpById(lhs, rhs) == IdCmp(lhs.id, rhs.id)

\* impl PartialOrd for PendingTask: the order of the ids, reversed
PendingTaskCmp(lhs, rhs) == OrderingReverse(IdCmp(lhs.id, rhs.id))

(***************************************************************************)
(* BinaryHeap<T> as its array.  cmp is T's Ord::cmp, given as the function *)
(* from the pairs of elements to their Ordering.                           *)
(***************************************************************************)
Swap(data, i, j) == [data EXCEPT ![i] = data[j], ![j] = data[i]]

\* BinaryHeap::sift_up(start, pos)
SiftUp(cmp, data, start, pos) ==
    LET RECURSIVE up(_, _)
        up(d, p) ==
            IF p > start /\ cmp[<<d[p], d[p \div 2]>>] > 0
            THEN up(Swap(d, p, p \div 2), p \div 2)
            ELSE d
    IN up(data, pos)

\* BinaryHeap::sift_down_to_bottom(pos): the hole goes down to a leaf along
\* the greater children, then the element is sifted back up
SiftDownToBottom(cmp, data, pos) ==
    LET end == Len(data)
        RECURSIVE down(_, _)
        down(d, p) ==
            LET child == 2 * p
            IN IF child + 1 <= end
               THEN LET c == IF cmp[<<d[child], d[child + 1]>>] <= 0
                             THEN child + 1 ELSE child
                    IN down(Swap(d, p, c), c)
               ELSE IF child = end
                    THEN SiftUp(cmp, Swap(d, p, child), pos, child)
                    ELSE SiftUp(cmp, d, pos, p)
    IN down(data, pos)

\* BinaryHeap::push
HeapPush(cmp, data, item) ==
    SiftUp(cmp, Append(data, item), 1, Len(data) + 1)

\* BinaryHeap::peek, on a non-empty heap
HeapPeek(data) == data[1]

\* BinaryHeap::pop, on a non-empty heap: the array that is left
HeapPop(cmp, data) ==
    LET last == data[Len(data)]
        rest == SubSeq(data, 1, Len(data) - 1)
    IN IF rest = <<>> THEN rest
       ELSE SiftDownToBottom(cmp, [rest EXCEPT ![1] = last], 1)

(***************************************************************************)
(* TaskList: the heap of the PendingTasks of one index                     *)
(***************************************************************************)
Range(s) == {s[i] : i \in DOMAIN s}

\* impl Ord for PendingTask, over the tasks of a list
PendingTaskOrd(list) ==
    [p \in Range(list) \X Range(list) |-> PendingTaskCmp(p[1], p[2])]

\* list.push(task)
TaskListPush(list, task) ==
    HeapPush(PendingTaskOrd(Append(list, task)), list, task)

\* list.pop()
TaskListPop(list) == HeapPop(PendingTaskOrd(list), list)

\* list.drain(): BinaryHeap::drain empties the heap and yields its elements in
\* the order of the array, not in the order of pop
TaskListDrain(list) == [yielded |-> list, list |-> <<>>]

\* mutant: the heads compared by id, the reversal forgotten
TaskListCmpById(l1, l2) ==
    IF l1 = <<>> /\ l2 = <<>> THEN 0
    ELSE IF l1 = <<>> THEN -1
    ELSE IF l2 = <<>> THEN 1
    ELSE IdCmp(HeapPeek(l1).id, HeapPeek(l2).id)

\* impl PartialOrd for TaskList: by the heads; no head is less than a head
TaskListCmp(l1, l2) ==
    IF l1 = <<>> /\ l2 = <<>> THEN 0
    ELSE IF l1 = <<>> THEN -1
    ELSE IF l2 = <<>> THEN 1
    ELSE PendingTaskCmp(HeapPeek(l1), HeapPeek(l2))

\* impl Ord for TaskList, over the lists the queue refers to: the outer heap
\* holds Arc<AtomicRefCell<TaskList>>, the model holds the index of the list
\* and reads the list through index_tasks, which shares it
TaskListOrd(index_tasks) ==
    [p \in (DOMAIN index_tasks) \X (DOMAIN index_tasks) |->
        TaskListCmp(index_tasks[p[1]], index_tasks[p[2]])]

(***************************************************************************)
(* TaskQueue                                                               *)
(***************************************************************************)
\* TaskQueue::default()
EmptyTaskQueue == [index_tasks |-> <<>>, queue |-> <<>>]

\* the classification of TaskQueue::insert: the TaskType of a TaskContent
TaskTypeOf(content) ==
    IF content.tag = "DocumentAddition"
          /\ content.merge_strategy = "ReplaceDocuments"
    THEN DocumentAddition(content.documents_count)
    ELSE IF content.tag = "DocumentAddition"
          /\ content.merge_strategy = "UpdateDocuments"
    THEN DocumentsUpdate(content.documents_count)
    ELSE Other

PendingTaskOf(task) == [kind |-> TaskTypeOf(task.content), id |-> task.id]

\* the assertion of TaskQueue::insert on an existing list
InsertAssertion(list, id) == list = <<>> \/ id > HeapPeek(list).id

\* TaskQueue::insert(task)
Insert(tq, task) ==
    LET uid == task.index_uid
        pending == PendingTaskOf(task)
    IN IF uid \in DOMAIN tq.index_tasks
       THEN [tq EXCEPT !.index_tasks[uid] = TaskListPush(@, pending)]
       ELSE LET new_tasks == (uid :> TaskListPush(<<>>, pending)) @@ tq.index_tasks
            IN [index_tasks |-> new_tasks,
                queue |-> HeapPush(TaskListOrd(new_tasks), tq.queue, uid)]

\* the map without one key: index_tasks.remove(index)
MapRemove(f, k) == [x \in (DOMAIN f) \ {k} |-> f[x]]

\* mutant: head_mut leaves the list it emptied in index_tasks
HeadMutPutKeep(tq, new_list) ==
    LET head == HeapPeek(tq.queue)
        popped == HeapPop(TaskListOrd(tq.index_tasks), tq.queue)
        new_tasks == [tq.index_tasks EXCEPT ![head] = new_list]
    IN IF new_list # <<>>
       THEN [index_tasks |-> new_tasks,
             queue |-> HeapPush(TaskListOrd(new_tasks), popped, head)]
       ELSE [index_tasks |-> new_tasks, queue |-> popped]

\* TaskQueue::head_mut, after f has turned the head list into new_list: the
\* head was popped before f ran, and is pushed back unless f emptied it
HeadMutPut(tq, new_list) ==
    LET head == HeapPeek(tq.queue)
        popped == HeapPop(TaskListOrd(tq.index_tasks), tq.queue)
        new_tasks == [tq.index_tasks EXCEPT ![head] = new_list]
    IN IF new_list # <<>>
       THEN [index_tasks |-> new_tasks,
             queue |-> HeapPush(TaskListOrd(new_tasks), popped, head)]
       ELSE [index_tasks |-> MapRemove(tq.index_tasks, head),
             queue |-> popped]

\* the list TaskQueue::head_mut hands to its closure (the queue is not empty)
HeadList(tq) == tq.index_tasks[HeapPeek(tq.queue)]

\* TaskQueue::is_empty
IsEmpty(tq) == tq.queue = <<>> /\ DOMAIN tq.index_tasks = {}

(***************************************************************************)
(* make_batch                                                              *)
(***************************************************************************)
Max(x, y) == IF x >= y THEN x ELSE y

\* mutant: the size bound tested with > instead of >=
BatchFullOffByOne(proc, cfg) == Len(proc) > Max(cfg.max_batch_size, 1)

\* mutant: max_batch_size taken as it is, without .max(1)
BatchFullNoMax(proc, cfg) == Len(proc) >= cfg.max_batch_size

\* processing.len() >= config.max_batch_size.max(1)
BatchFull(proc, cfg) == Len(proc) >= Max(cfg.max_batch_size, 1)

\* mutant: the cap tested with > instead of >=
DocCapExceeded(doc_count, cfg) ==
    /\ cfg.max_documents_per_batch # None
    /\ doc_count > cfg.max_documents_per_batch[1]

\* doc_count >= config.max_documents_per_batch.unwrap_or(usize::MAX); no sum
\* of document counts of the model reaches usize::MAX
DocCapReached(doc_count, cfg) ==
    /\ cfg.max_documents_per_batch # None
    /\ doc_count >= cfg.max_documents_per_batch[1]

\* the loop of make_batch over the head list, for a head of document kind:
\* the list and the processing vector when the loop breaks
RECURSIVE Coalesce(_, _, _, _, _)
Coalesce(list, proc, doc_count, kind, cfg) ==
    IF list # <<>> /\ TaskTypeEq(HeapPeek(list).kind, kind)
    THEN IF BatchFull(proc, cfg)
         THEN [list |-> list, processing |-> proc]
         ELSE LET pending == HeapPeek(list)
                  list2 == TaskListPop(list)
                  proc2 == Append(proc, pending.id)
                  count2 == doc_count + pending.kind.number
              IN IF DocCapReached(count2, cfg)
                 THEN [list |-> list2, processing |-> proc2]
                 ELSE Coalesce(list2, proc2, count2, kind, cfg)
    ELSE [list |-> list, processing |-> proc]

\* mutant: the closure takes the head task alone, whatever its kind
BatchClosureSingle(list, proc, cfg) ==
    IF list = <<>> THEN [list |-> list, processing |-> proc]
    ELSE [list |-> TaskListPop(list),
          processing |-> Append(proc, HeapPeek(list).id)]

\* the closure make_batch passes to head_mut
BatchClosure(list, proc, cfg) ==
    IF list = <<>> THEN [list |-> list, processing |-> proc]
    ELSE IF HeapPeek(list).kind.variant = "Other"
    THEN [list |-> TaskListPop(list),
          processing |-> Append(proc, HeapPeek(list).id)]
    ELSE Coalesce(list, proc, 0, HeapPeek(list).kind, cfg)

\* mutant: the selected tasks are read off the head list and left in it
MakeBatchPeek(tq, cfg) ==
    IF tq.queue = <<>>
    THEN [tasks |-> tq, processing |-> <<>>]
    ELSE [tasks |-> tq,
          processing |-> BatchClosure(HeadList(tq), <<>>, cfg).processing]

\* mutant: a batch that emptied the head list and is not full goes on with
\* the next head list
MakeBatchAcrossIndexes(tq, cfg) ==
    IF tq.queue = <<>>
    THEN [tasks |-> tq, processing |-> <<>>]
    ELSE LET r1 == BatchClosure(HeadList(tq), <<>>, cfg)
             tq1 == HeadMutPut(tq, r1.list)
         IN IF r1.list = <<>> /\ tq1.queue # <<>> /\ ~BatchFull(r1.processing, cfg)
            THEN LET r2 == BatchClosure(HeadList(tq1), r1.processing, cfg)
                 IN [tasks |-> HeadMutPut(tq1, r2.list),
                     processing |-> r2.processing]
            ELSE [tasks |-> tq1, processing |-> r1.processing]

\* make_batch(tasks, processing, config), processing being empty
MakeBatch(tq, cfg) ==
    IF tq.queue = <<>>
    THEN [tasks |-> tq, processing |-> <<>>]
    ELSE LET r == BatchClosure(HeadList(tq), <<>>, cfg)
         IN [tasks |-> HeadMutPut(tq, r.list), processing |-> r.processing]


(***************************************************************************)
(* What is pending, read off the lists as sets (not through the heaps)     *)
(***************************************************************************)
\* the pending tasks of the queue, each with the key of its list
AllPending(tq) ==
    {[id |-> t.id, kind |-> t.kind, list |-> uid] :
        <<uid, t>> \in UNION {{<<u, x>> : x \in Range(tq.index_tasks[u])} :
                                u \in DOMAIN tq.index_tasks}}

PendingIds(tq) == {t.id : t \in AllPending(tq)}

SetMin(S) == CHOOSE x \in S : \A y \in S : x <= y

SetMax(S) == CHOOSE x \in S : \A y \in S : x >= y

\* the tasks of the queue tq that the ids of proc name, in the order of proc,
\* each with the index_uid it was inserted with
Selected(tq, proc, idx) ==
    [i \in 1..Len(proc) |->
        LET t == CHOOSE x \in AllPending(tq) : x.id = proc[i]
        IN [id |-> t.id, kind |-> t.kind, index |-> idx[t.id]]]

\* per index, the largest id batched so far, after the batch b
Batched(last, b) ==
    [u \in Indexes |->
        SetMax({last[u]} \cup {b[i].id : i \in {j \in DOMAIN b : b[j].index = u}})]

(***************************************************************************)
(* The TaskQueue driven directly, as the tests of the module drive it:     *)
(* inserts of tasks with increasing ids, and make_batch on a cleared       *)
(* vector.                                                                 *)
(***************************************************************************)
Configs ==
    [max_batch_size : 0..MaxBatchSize, max_documents_per_batch : DocCaps]

NoResult == [kind |-> "None"]

InitWith(cfgs) ==
    /\ tasks = EmptyTaskQueue
    /\ processing = <<>>
    /\ jobs = <<>>
    /\ next_fetched_task_id = 0
    /\ config \in cfgs
    /\ store = <<>>
    /\ next_id = 0
    /\ notified = 0
    /\ result = NoResult
    /\ returned = {}
    /\ index_of = <<>>
    /\ batch = <<>>
    /\ scheduled = <<>>
    /\ last_batched = [u \in Indexes |-> -1]

\* queue.insert(gen_task(next_id, uid, content))
QueueInsert(indexes, contents, limit) ==
    /\ next_id < limit
    /\ \E uid \in indexes, content \in contents :
          LET task == [id |-> next_id, index_uid |-> uid, content |-> content]
          IN /\ uid \in DOMAIN tasks.index_tasks
                    => InsertAssertion(tasks.index_tasks[uid], task.id)
             /\ tasks' = Insert(tasks, task)
             /\ index_of' = (task.id :> uid) @@ index_of
    /\ next_id' = next_id + 1
    /\ UNCHANGED <<processing, jobs, scheduled, next_fetched_task_id, config, store,
                   notified, result, returned, batch, last_batched>>

\* batch.clear(); make_batch(&mut queue, &mut batch, &config)
QueueMakeBatch ==
    LET r == MakeBatch(tasks, config)
    IN /\ tasks' = r.tasks
       /\ processing' = r.processing
       /\ batch' = Selected(tasks, r.processing, index_of)
       /\ last_batched' =
            Batched(last_batched, Selected(tasks, r.processing, index_of))
       /\ UNCHANGED <<jobs, scheduled, next_fetched_task_id, config, store, next_id,
                      notified, result, returned, index_of>>

\* every configuration, every content, two indexes
InitQueue == InitWith(Configs)

NextQueue ==
    \/ QueueInsert(Indexes, TaskContents, MaxTasks)
    \/ QueueMakeBatch

SpecQueue == InitQueue /\ [][NextQueue]_vars

\* the contents of test_make_batch (documents_count: 0), no document cap
PlainContents ==
    {DocumentAdditionContent(s, 0) :
        s \in {"ReplaceDocuments", "UpdateDocuments"}}
    \cup {IndexDeletion}

PlainConfigs ==
    [max_batch_size : 0..MaxBatchSize, max_documents_per_batch : {None}]

\* the configurations of the scheduler: no coalescing, coalescing
SchedulerConfigs ==
    [max_batch_size : {1, MaxBatchSize}, max_documents_per_batch : {None}]

InitPlain == InitWith(PlainConfigs)

NextPlain ==
    \/ QueueInsert(Indexes, PlainContents, MaxTasksPlain)
    \/ QueueMakeBatch

SpecPlain == InitPlain /\ [][NextPlain]_vars

\* one index, more tasks
NextSingle ==
    \/ QueueInsert({"a"}, PlainContents, MaxTasksSingle)
    \/ QueueMakeBatch

SpecSingle == InitPlain /\ [][NextSingle]_vars

\* queue.head_mut(|tasks| tasks.drain().map(|t| t.id).collect()), as in the
\* test register_updates_multiples_indexes; batch records what was yielded
QueueDrain ==
    LET drained == TaskListDrain(HeadList(tasks))
        ids == [k \in 1..Len(drained.yielded) |-> drained.yielded[k].id]
    IN /\ tasks.queue # <<>>
       /\ tasks' = HeadMutPut(tasks, drained.list)
       /\ batch' = Selected(tasks, ids, index_of)
       /\ last_batched' = Batched(last_batched, Selected(tasks, ids, index_of))
       /\ UNCHANGED <<processing, jobs, scheduled, next_fetched_task_id,
                      config, store, next_id, notified, result, returned,
                      index_of>>

\* inserts, make_batch and draining head_mut calls
NextDrain ==
    \/ QueueInsert(Indexes, PlainContents, MaxTasksPlain)
    \/ QueueMakeBatch
    \/ QueueDrain

SpecDrain == InitWith(SchedulerConfigs) /\ [][NextDrain]_vars

(***************************************************************************)
(* The TaskStore, as the scheduler uses it.  A task of the store is        *)
(* [id, index_uid, content, events]; the task of id i is store[i + 1].     *)
(***************************************************************************)
Event(type, batch_id) == [type |-> type, batch_id |-> batch_id]

\* Task::is_finished: the last event is terminal
IsFinished(task) ==
    /\ task.events # <<>>
    /\ task.events[Len(task.events)].type \in {"Succeeded", "Failed"}

Reverse(seq) == [i \in 1..Len(seq) |-> seq[Len(seq) + 1 - i]]

\* store.list_tasks(Some(offset), Some(filter: !is_finished), None): the
\* unfinished tasks of id >= offset, in descending id order
ListTasks(st, offset) ==
    Reverse(SelectSeq(st, LAMBDA t : t.id >= offset /\ ~IsFinished(t)))

\* store.get_pending_tasks(ids): the ids that are still pending, in the
\* ascending order they are given in, and their tasks
GetPendingTasks(st, ids) ==
    LET keep == SelectSeq(ids, LAMBDA i : ~IsFinished(st[i + 1]))
    IN [ids |-> keep, tasks |-> [k \in 1..Len(keep) |-> st[keep[k] + 1]]]

\* store.update_tasks(tasks): the tasks stored again with their events
UpdateTasks(st, ts) ==
    [i \in 1..Len(st) |->
        IF \E k \in DOMAIN ts : ts[k].id = st[i].id
        THEN ts[CHOOSE k \in DOMAIN ts : ts[k].id = st[i].id]
        ELSE st[i]]

(***************************************************************************)
(* Scheduler                                                               *)
(***************************************************************************)
\* Scheduler::register_task (the task is not finished)
RegisterTask(tq, task) == Insert(tq, task)

\* the for_each of fetch_pending_tasks over the listed tasks, reversed: each
\* task moves next_fetched_task_id past its id and is registered
\* mutant: next_fetched_task_id stays on the task fetched last
NextFetchedSame(id) == id

\* mutant: next_fetched_task_id skips the id after the task fetched last
NextFetchedSkip(id) == id + 2

\* self.next_fetched_task_id = t.id + 1
NextFetched(id) == id + 1

RECURSIVE RegisterAll(_, _, _)
RegisterAll(tq, next, ts) ==
    IF ts = <<>> THEN [tasks |-> tq, next_fetched_task_id |-> next]
    ELSE RegisterAll(RegisterTask(tq, Head(ts)), NextFetched(Head(ts).id),
                     Tail(ts))

\* mutant: the fetch lists the store from the first id, whatever was fetched
FetchPendingTasksAll(tq, next, st) ==
    RegisterAll(tq, next, Reverse(ListTasks(st, 0)))

\* Scheduler::fetch_pending_tasks, the store having answered
FetchPendingTasks(tq, next, st) ==
    RegisterAll(tq, next, Reverse(ListTasks(st, next)))

\* mutant: finish leaves processing as it is
FinishKeep(proc) == proc

\* Scheduler::finish: processing.clear()
Finish(proc) == <<>>

\* Scheduler::notifiy_if_not_empty: whether notify() is called
NotifyIfNotEmpty(js, tq) == (~~(js = <<>>)) \/ ~IsEmpty(tq)

\* Scheduler::notify: notifier.send(()), one more value the receiver has not
\* seen; the Result of send is discarded
NotifierSend(unseen) == unseen + 1

\* mutant: the receiver consumes one value for each wake-up, as from a queue
RcvChangedOne(unseen) == IF unseen > 0 THEN unseen - 1 ELSE 0

\* rcv.changed() in the update loop: the receiver of the watch channel has
\* seen the latest value, however many were sent
RcvChanged(unseen) == 0

\* one iteration of the update loop on the channel: it wakes up, and prepare
\* calls notify() or does not (fires)
Iteration(unseen, fires) ==
    IF fires THEN NotifierSend(RcvChanged(unseen)) ELSE RcvChanged(unseen)

\* mutant: only the first task of the batch gets the Batched event
StampFirst(ts, batch_id) ==
    [k \in 1..Len(ts) |->
        IF k = 1 THEN [ts[k] EXCEPT !.events = Append(@, Event("Batched", batch_id))]
        ELSE ts[k]]

\* the Batched event prepare pushes on every task of the batch
Stamp(ts, batch_id) ==
    [k \in 1..Len(ts) |->
        [ts[k] EXCEPT !.events = Append(@, Event("Batched", batch_id))]]

\* the contents of the tasks of the store: a document addition, which
\* coalesces, and an index deletion, which does not
StoreContents ==
    {DocumentAdditionContent("ReplaceDocuments", 0), IndexDeletion}

\* a client registers a task in the store and notifies the scheduler
StoreRegister ==
    /\ next_id < MaxStoreTasks
    /\ \E uid \in Indexes, content \in StoreContents :
          store' = Append(store, [id |-> next_id, index_uid |-> uid,
                                  content |-> content,
                                  events |-> <<Event("Created", -1)>>])
    /\ next_id' = next_id + 1
    /\ notified' = NotifierSend(notified)
    /\ UNCHANGED <<tasks, processing, jobs, scheduled, next_fetched_task_id, config,
                   result, returned, index_of, batch, last_batched>>

\* the jobs scheduled; a job is scheduled again only once it was popped
Jobs == {"dump", "snapshot"}

\* mutant: VecDeque::push_front
PushFront(deque, job) == <<job>> \o deque

\* VecDeque::push_back
PushBack(deque, job) == Append(deque, job)

\* Scheduler::schedule_job
ScheduleJob ==
    /\ \E job \in Jobs \ Range(jobs) :
          /\ jobs' = PushBack(jobs, job)
          /\ scheduled' = Append(scheduled, job)
    /\ UNCHANGED <<tasks, processing, next_fetched_task_id, config, store,
                   next_id, notified, result, returned, index_of, batch,
                   last_batched>>

\* the update loop calls prepare() when it has dealt with the last result
LoopReady == result.kind \in {"None", "Nothing", "Err"}

\* Scheduler::prepare, a job waiting
PrepareJob ==
    /\ LoopReady
    /\ jobs # <<>>
    /\ jobs' = Tail(jobs)
    /\ scheduled' = SelectSeq(scheduled, LAMBDA j : j # Head(jobs))
    /\ notified' = Iteration(notified, NotifyIfNotEmpty(Tail(jobs), tasks))
    /\ result' = [kind |-> "Job", job |-> Head(jobs)]
    /\ UNCHANGED <<tasks, processing, next_fetched_task_id, config, store,
                   next_id, returned, index_of, batch, last_batched>>

\* Scheduler::prepare, no job waiting, list_tasks failing: the error is
\* returned from fetch_pending_tasks before anything is registered
PrepareFetchError ==
    /\ LoopReady
    /\ jobs = <<>>
    /\ notified' = Iteration(notified, FALSE)
    /\ result' = [kind |-> "Err", call |-> "list_tasks"]
    /\ UNCHANGED <<tasks, processing, jobs, scheduled, next_fetched_task_id, config,
                   store, next_id, returned, index_of, batch, last_batched>>

\* Scheduler::prepare, no job waiting, list_tasks answering; get_pending_tasks
\* fails or answers (pending_fails).  The values computed on the way are
\* bound by \E over one-element sets, so that each is computed once.
PrepareBatch(pending_fails) ==
    \E fetched \in {FetchPendingTasks(tasks, next_fetched_task_id, store)} :
    \E made \in {MakeBatch(fetched.tasks, config)} :
    \E new_index \in {[i \in PendingIds(fetched.tasks) |->
                          store[i + 1].index_uid] @@ index_of} :
    \E selected \in {Selected(fetched.tasks, made.processing, new_index)} :
    \E pending \in {GetPendingTasks(store, made.processing)} :
       /\ LoopReady
       /\ jobs = <<>>
       /\ tasks' = made.tasks
       /\ next_fetched_task_id' = fetched.next_fetched_task_id
       /\ index_of' = new_index
       /\ batch' = selected
       /\ last_batched' = Batched(last_batched, selected)
       /\ IF made.processing = <<>>
          THEN /\ processing' = made.processing
               /\ result' = [kind |-> "Nothing"]
               /\ notified' = Iteration(notified, FALSE)
               /\ UNCHANGED returned
          ELSE IF pending_fails
          THEN \* processing was taken (std::mem::take) before the call
               /\ processing' = <<>>
               /\ result' = [kind |-> "Err", call |-> "get_pending_tasks"]
               /\ notified' = Iteration(notified, FALSE)
               /\ UNCHANGED returned
          ELSE IF pending.tasks = <<>>
          THEN \* panic!("invalid batch")
               /\ processing' = <<>>
               /\ result' = [kind |-> "Panic"]
               /\ notified' = Iteration(notified, FALSE)
               /\ UNCHANGED returned
          ELSE /\ processing' = pending.ids
               /\ result' = [kind |-> "Batch", id |-> pending.tasks[1].id,
                              tasks |-> Stamp(pending.tasks, pending.tasks[1].id)]
               /\ notified' =
                    Iteration(notified, NotifyIfNotEmpty(jobs, made.tasks))
               /\ returned' = returned \cup Range(pending.ids)
       /\ UNCHANGED <<jobs, scheduled, config, store, next_id>>

Prepare ==
    \/ PrepareJob
    \/ PrepareFetchError
    \/ \E pending_fails \in BOOLEAN : PrepareBatch(pending_fails)

\* the events the performer appends to a task it processed
Performed(ts) ==
    [k \in 1..Len(ts) |->
        [ts[k] EXCEPT !.events =
            @ \o <<Event("Processing", -1), Event("Succeeded", -1)>>]]

\* the update loop with a Batch: the performer processes it, the tasks are
\* updated in the store, finish() is called
ProcessBatch ==
    /\ result.kind = "Batch"
    /\ store' = UpdateTasks(store, Performed(result.tasks))
    /\ processing' = Finish(processing)
    /\ result' = NoResult
    /\ UNCHANGED <<tasks, jobs, scheduled, next_fetched_task_id, config, next_id,
                   notified, returned, index_of, batch, last_batched>>

\* the update loop with a Batch whose processing or update_tasks fails: the
\* store keeps the tasks as they were, unfinished, and finish() is called
DropBatch ==
    /\ result.kind = "Batch"
    /\ processing' = Finish(processing)
    /\ result' = NoResult
    /\ UNCHANGED <<tasks, jobs, scheduled, next_fetched_task_id, config, store,
                   next_id, notified, returned, index_of, batch, last_batched>>

\* the update loop with a Job: the performer processes it
ProcessJob ==
    /\ result.kind = "Job"
    /\ result' = NoResult
    /\ UNCHANGED <<tasks, processing, jobs, scheduled, next_fetched_task_id, config,
                   store, next_id, notified, returned, index_of, batch,
                   last_batched>>

\* a task that was not returned in a batch is finished in the store by
\* someone else than the performer
FinishOutside ==
    /\ \E i \in DOMAIN store :
          /\ ~IsFinished(store[i])
          /\ store[i].id \notin returned
          /\ store' = [store EXCEPT ![i].events = Append(@, Event("Failed", -1))]
    /\ UNCHANGED <<tasks, processing, jobs, scheduled, next_fetched_task_id, config,
                   next_id, notified, result, returned, index_of, batch,
                   last_batched>>

Init == InitWith(SchedulerConfigs)

Next ==
    \/ StoreRegister
    \/ ScheduleJob
    \/ Prepare
    \/ ProcessBatch
    \/ ProcessJob

Spec == Init /\ [][Next]_vars

\* the same, tasks being also finished outside of the performer
NextOutside == Next \/ FinishOutside

SpecOutside == Init /\ [][NextOutside]_vars

\* Scheduler::notify called by anyone, any number of times (up to MaxNotifies
\* values unseen): send stores the value without waiting for the receiver
Notify ==
    /\ notified < MaxNotifies
    /\ notified' = NotifierSend(notified)
    /\ UNCHANGED <<tasks, processing, jobs, scheduled, next_fetched_task_id,
                   config, store, next_id, result, returned, index_of, batch,
                   last_batched>>

\* a client registers a document addition, the content that coalesces
RegisterAddition ==
    StoreRegister /\ store'[Len(store')].content.tag = "DocumentAddition"

\* a job is scheduled when none is waiting
ScheduleOneJob == ScheduleJob /\ jobs' = <<"dump">>

\* the scheduler, notify() being called at any time
NextNotify ==
    \/ Notify
    \/ RegisterAddition
    \/ ScheduleOneJob
    \/ Prepare
    \/ ProcessBatch
    \/ ProcessJob

SpecNotify == Init /\ [][NextNotify]_vars

\* the scheduler, no store call failing; the tasks registered are document
\* additions, which coalesce, and there is one job in the deque at a time
NextLive ==
    \/ RegisterAddition
    \/ ScheduleOneJob
    \/ PrepareJob
    \/ PrepareBatch(FALSE)
    \/ ProcessBatch
    \/ ProcessJob

\* the update loop keeps calling prepare() and deals with what it returns
LoopFairness ==
    /\ WF_vars(PrepareJob \/ PrepareBatch(FALSE))
    /\ WF_vars(ProcessBatch)
    /\ WF_vars(ProcessJob)

\* from some point on no job is scheduled any more and the deque is empty
JobsDrained == <>[](jobs = <<>>)

SpecLive == Init /\ [][NextLive]_vars /\ LoopFairness /\ JobsDrained

\* the scheduler and the store without jobs, the tasks being document additions
NextStore ==
    \/ RegisterAddition
    \/ FinishOutside
    \/ PrepareFetchError
    \/ \E pending_fails \in BOOLEAN : PrepareBatch(pending_fails)
    \/ ProcessBatch
    \/ DropBatch

SpecStore == Init /\ [][NextStore]_vars

(***************************************************************************)
(* Claims about the TaskQueue and make_batch                               *)
(***************************************************************************)
Ids(list) == {t.id : t \in Range(list)}

HeadHasGlobalMin ==
    tasks.queue # <<>> => SetMin(Ids(HeadList(tasks))) = SetMin(PendingIds(tasks))

\* C1: in every state reached by inserts of increasing ids and make_batch
\* calls, the list head_mut would hand out holds the smallest pending id of
\* the whole queue, and the first id make_batch selects is that id.
C1_SmallestIdFirst ==
    [][/\ HeadHasGlobalMin
       /\ (QueueMakeBatch /\ tasks.queue # <<>>)
            => /\ processing' # <<>>
               /\ processing'[1] = SetMin(PendingIds(tasks))]_vars

\* a batch taken from the list created second, while the list created first
\* (it holds task 0's index) still has tasks pending: the outer heap was
\* reordered by the heads
C1_Witness ==
    /\ batch # <<>>
    /\ batch[1].index # index_of[0]
    /\ last_batched[index_of[0]] >= 0
    /\ \E t \in AllPending(tasks) : t.list = index_of[0]
    /\ \E t \in AllPending(tasks) : t.list = batch[1].index

DocVariants == {"DocumentAddition", "DocumentsUpdate"}

\* C2: a non-empty batch is exactly one Other task, or document tasks that
\* all have the same variant.
C2_BatchShape ==
    batch # <<>> =>
        \/ Len(batch) = 1 /\ batch[1].kind.variant = "Other"
        \/ \E v \in DocVariants : \A i \in DOMAIN batch : batch[i].kind.variant = v

\* two additions batched, the size bound not reached, no document cap, and
\* the next task of the same index an update: the variant ended the batch
C2_Witness ==
    /\ Len(batch) = 2
    /\ batch[1].kind.variant = "DocumentAddition"
    /\ config.max_batch_size > 2
    /\ config.max_documents_per_batch = None
    /\ \E t \in AllPending(tasks) :
          /\ t.list = batch[1].index
          /\ t.id = batch[2].id + 1
          /\ t.kind.variant = "DocumentsUpdate"

\* C3: all tasks of a batch were inserted with the same index_uid.
C3_SingleIndex ==
    \A i \in DOMAIN batch : \A j \in DOMAIN batch : batch[i].index = batch[j].index

\* a batch of two tasks of one index, while the other index holds a pending
\* task of the same variant whose id lies between them
C3_Witness ==
    /\ Len(batch) >= 2
    /\ \E t \in AllPending(tasks) :
          /\ index_of[t.id] # batch[1].index
          /\ batch[1].id < t.id /\ t.id < batch[2].id
          /\ TaskTypeEq(t.kind, batch[1].kind)

SameDocVariant(S) ==
    \E v \in DocVariants : \A t \in S : t.kind.variant = v

\* C4: make_batch selects at most max(max_batch_size, 1) tasks; with
\* max_batch_size = 2 and same-variant document tasks 0..5 pending on one
\* index, the successive batches are [0,1], [2,3], [4,5].
C4_BatchSize ==
    [][QueueMakeBatch =>
        /\ Len(processing') <= Max(config.max_batch_size, 1)
        /\ \A k \in {0, 2, 4} :
              (/\ config.max_batch_size = 2
               /\ PendingIds(tasks) = k..5
               /\ SameDocVariant(AllPending(tasks))
               /\ \A t \in AllPending(tasks) : index_of[t.id] = "a")
              => processing' = <<k, k + 1>>]_vars

\* the second batch of the scenario: [2,3] selected, 4 and 5 of the same
\* variant left pending by the size bound
C4_Witness ==
    /\ config.max_batch_size = 2
    /\ processing = <<2, 3>>
    /\ PendingIds(tasks) = {4, 5}
    /\ SameDocVariant(AllPending(tasks) \cup Range(batch))
    /\ \A i \in 0..5 : index_of[i] = "a"

RECURSIVE SumNumbers(_, _)
SumNumbers(b, n) ==
    IF n = 0 THEN 0 ELSE SumNumbers(b, n - 1) + b[n].kind.number

SumExceptLast(b) == SumNumbers(b, Len(b) - 1)

DocBatchUnderCap ==
    /\ config.max_documents_per_batch # None
    /\ batch # <<>>
    /\ batch[1].kind.variant \in DocVariants

\* C5, as claimed: when the cap is set, the document counts of a batch of
\* document tasks, the last one left out, sum to less than the cap.
C5_Original ==
    DocBatchUnderCap
        => SumExceptLast(batch) < config.max_documents_per_batch[1]

\* C5, amended: when the cap is set, a batch of document tasks is a single
\* task or the document counts of its tasks, the last one left out, sum to
\* less than the cap (a cap of 0 gives batches of one task).
C5_CapAfterPush ==
    DocBatchUnderCap
        => \/ Len(batch) = 1
           \/ SumExceptLast(batch) < config.max_documents_per_batch[1]

\* cap 3, two tasks of 2 documents batched together (the second crosses the
\* cap), a third task of the same variant left behind by the cap alone
C5_Witness ==
    /\ config.max_documents_per_batch = Some(3)
    /\ config.max_batch_size = 3
    /\ Len(batch) = 2
    /\ batch[1].kind.number = 2 /\ batch[2].kind.number = 2
    /\ \E t \in AllPending(tasks) :
          /\ t.list = batch[1].index
          /\ t.id = batch[2].id + 1
          /\ TaskTypeEq(t.kind, batch[1].kind)

\* the first task of proc is a document task whose number alone exceeds the cap
Oversized(tq, proc, cfg) ==
    LET first == CHOOSE t \in AllPending(tq) : t.id = proc[1]
    IN /\ cfg.max_documents_per_batch # None
       /\ first.kind.variant \in DocVariants
       /\ first.kind.number > cfg.max_documents_per_batch[1]

\* C6: on a non-empty queue make_batch selects at least one task, what it
\* selects is what it removes from the queue, and a first task whose document
\* count alone exceeds the cap is batched alone.
C6_Progress ==
    [][(QueueMakeBatch /\ ~IsEmpty(tasks)) =>
        /\ processing' # <<>>
        /\ Range(processing') \subseteq PendingIds(tasks)
        /\ PendingIds(tasks') = PendingIds(tasks) \ Range(processing')
        /\ Oversized(tasks, processing', config) => Len(processing') = 1]_vars

\* max_batch_size = 0 and a head task of 2 documents under a cap of 1: the
\* task is batched, alone
C6_Witness ==
    /\ config.max_batch_size = 0
    /\ config.max_documents_per_batch = Some(1)
    /\ Len(batch) = 1
    /\ batch[1].kind.number = 2
    /\ processing = <<batch[1].id>>
    /\ \E t \in AllPending(tasks) :
          t.list = batch[1].index /\ TaskTypeEq(t.kind, batch[1].kind)

\* nothing pending is older than a batched task of its index
PendingAfterBatched(tq, last) ==
    \A t \in AllPending(tq) : t.id > last[index_of[t.id]]

\* C7: the ids of a batch are strictly increasing, every id of a batch is
\* larger than every id batched earlier on its index, and no task left
\* pending is older than a batched task of its index.
C7_PerIndexOrder ==
    [][/\ PendingAfterBatched(tasks, last_batched)
       /\ QueueMakeBatch =>
            /\ \A i \in DOMAIN batch' : \A j \in DOMAIN batch' :
                  i < j => batch'[i].id < batch'[j].id
            /\ \A i \in DOMAIN batch' :
                  batch'[i].id > last_batched[batch'[i].index]
            /\ PendingAfterBatched(tasks', last_batched')]_vars

\* a second batch of an index, of two tasks, with a task of that index still
\* pending and the other index batched in between
C7_Witness ==
    /\ Len(batch) >= 2
    /\ \E i \in DOMAIN index_of :
          /\ index_of[i] = batch[1].index
          /\ i < batch[1].id
          /\ i \notin PendingIds(tasks)
    /\ \E u \in Indexes : u # batch[1].index /\ last_batched[u] >= 0
    /\ \E t \in AllPending(tasks) : t.list = batch[1].index

\* the pending tasks of the list that holds the smallest pending id
OldestList(tq) ==
    LET first == CHOOSE t \in AllPending(tq) : t.id = SetMin(PendingIds(tq))
    IN {t \in AllPending(tq) : t.list = first.list}

\* the n-th task of S by id
NthOldest(S, n) == CHOOSE t \in S : Cardinality({x \in S : x.id <= t.id}) = n

RECURSIVE SumOldest(_, _)
SumOldest(S, n) ==
    IF n = 0 THEN 0 ELSE SumOldest(S, n - 1) + NthOldest(S, n).kind.number

\* whether the n oldest tasks of S may form one batch: one task always; more
\* when they are document tasks of one variant, within the size bound, and
\* the tasks before the last do not reach the document cap
MayCoalesce(S, cfg, n) ==
    \/ n = 1
    \/ /\ n <= Cardinality(S)
       /\ n <= Max(cfg.max_batch_size, 1)
       /\ \A i \in 1..n : TaskTypeEq(NthOldest(S, i).kind, NthOldest(S, 1).kind)
       /\ cfg.max_documents_per_batch # None
            => SumOldest(S, n - 1) < cfg.max_documents_per_batch[1]

ExpectedBatch(tq, cfg) ==
    LET S == OldestList(tq)
        n == SetMax({k \in 1..Cardinality(S) : MayCoalesce(S, cfg, k)})
    IN [i \in 1..n |-> NthOldest(S, i).id]

\* C8, as claimed: coalescing stops as soon as the next id of the head index
\* is larger than the head id of another index, so that no id of a batch but
\* the first is larger than a pending id of another index.
C8_Original ==
    [][QueueMakeBatch =>
        \A i \in 2..Len(processing') : \A t \in AllPending(tasks) :
            index_of[t.id] # index_of[processing'[1]] => processing'[i] < t.id]_vars

\* C8, amended: a batch is made of the oldest tasks of the index that holds
\* the smallest pending id, as many as kind, size bound and document cap
\* allow, whatever ids the other indexes hold.
C8_OldestOfHeadIndex ==
    [][(QueueMakeBatch /\ tasks.queue # <<>>) =>
        processing' = ExpectedBatch(tasks, config)]_vars

\* the scenario: one index held {0, 3, 4}, the other {1, 2}; the first batch
\* is [0, 3, 4] and 1 and 2 are still pending
C8_Witness ==
    /\ processing = <<0, 3, 4>>
    /\ PendingIds(tasks) = {1, 2}
    /\ index_of[1] = index_of[2]
    /\ index_of[1] # index_of[0]

(***************************************************************************)
(* Claims about Scheduler::prepare                                         *)
(***************************************************************************)
\* C9: when prepare() has returned a Batch, processing is not empty and is
\* the list of the ids of the tasks of the batch; when it has returned a Job
\* or Nothing, processing is empty.
C9_ProcessingIsBatch ==
    /\ result.kind = "Batch" =>
          /\ processing # <<>>
          /\ processing = [k \in 1..Len(result.tasks) |-> result.tasks[k].id]
    /\ result.kind \in {"Job", "Nothing"} => processing = <<>>

\* a Batch returned with fewer tasks than make_batch selected: the store
\* reported one of the ids as not pending any more
C9_Witness ==
    /\ result.kind = "Batch"
    /\ Len(batch) = 2
    /\ Len(processing) = 1
    /\ processing[1] = batch[2].id

\* C10, as claimed: an unfinished task that the scheduler has fetched is in
\* the TaskQueue or has been returned in a batch, whatever store call failed.
C10_NoTaskLost ==
    \A i \in DOMAIN store :
        (~IsFinished(store[i]) /\ store[i].id < next_fetched_task_id)
            => \/ store[i].id \in PendingIds(tasks)
               \/ store[i].id \in returned


(***************************************************************************)
(* Claims about the notifier and the job deque                             *)
(***************************************************************************)
\* prepare returned a Job or a Batch in this step
PrepareReturnedWork == Prepare /\ result'.kind \in {"Job", "Batch"}

\* C11: whenever prepare returns a Job or a Batch and a job or a task remains
\* pending afterwards, prepare has called notify(): the channel holds a value
\* the update loop has not seen.
C11_NotifyIfWorkRemains ==
    [][(PrepareReturnedWork /\ (jobs' # <<>> \/ ~IsEmpty(tasks')))
          => notified' > 0]_vars

\* C12: whenever the job deque is not empty, prepare returns the job that was
\* scheduled earliest, whatever the store would answer (never a Batch, Nothing
\* or a store error); the job leaves the deque, and the TaskQueue, processing,
\* next_fetched_task_id and the store are unchanged.
C12_JobsFirst ==
    [][(Prepare /\ jobs # <<>>)
          => /\ result' = [kind |-> "Job", job |-> Head(scheduled)]
             /\ jobs' = Tail(jobs)
             /\ UNCHANGED <<tasks, processing, next_fetched_task_id, store>>]_vars

\* snapshot, scheduled before dump, was returned while dump waits and a task
\* of the store has not been fetched
C12_Witness ==
    /\ result = [kind |-> "Job", job |-> "snapshot"]
    /\ jobs = <<"dump">>
    /\ Len(store) > next_fetched_task_id
    /\ IsEmpty(tasks)

(***************************************************************************)
(* Claims about the scheduler and the store                                *)
(***************************************************************************)
\* the scheduler state fetch_pending_tasks works on
FetchState(tq, next) == [tasks |-> tq, next_fetched_task_id |-> next]

\* C13: a fetch leaves next_fetched_task_id one above the largest id it
\* fetched, and a second fetch on the same store returns the scheduler state
\* of the first: nothing more is inserted, next_fetched_task_id stays.
C13_FetchTwice ==
    LET listed == ListTasks(store, next_fetched_task_id)
        once == FetchPendingTasks(tasks, next_fetched_task_id, store)
        twice == FetchPendingTasks(once.tasks, once.next_fetched_task_id, store)
    IN /\ listed # <<>> =>
            once.next_fetched_task_id = SetMax(Ids(listed)) + 1
       /\ listed = <<>> => once = FetchState(tasks, next_fetched_task_id)
       /\ twice = once

\* two tasks were fetched, one is still in the queue, and a third task of the
\* store is there to be fetched next
C13_Witness ==
    /\ Len(store) = 3
    /\ next_fetched_task_id = 2
    /\ ~IsEmpty(tasks)
    /\ Len(ListTasks(store, next_fetched_task_id)) = 1

\* the number of Batched events among events
BatchedEvents(events) ==
    Cardinality({k \in DOMAIN events : events[k].type = "Batched"})

\* C14: the id of a returned Batch is the id of its first task and the
\* smallest id of the batch, and the events of each of its tasks are those the
\* store holds for the task followed by one Batched event that carries the id
\* of the batch, the task's only Batched event.
C14_BatchIdAndEvents ==
    result.kind = "Batch" =>
        /\ result.tasks # <<>>
        /\ result.id = result.tasks[1].id
        /\ result.id = SetMin(Ids(result.tasks))
        /\ \A k \in DOMAIN result.tasks :
              LET t == result.tasks[k]
              IN /\ t.events = Append(store[t.id + 1].events,
                                      Event("Batched", result.id))
                 /\ BatchedEvents(t.events) = 1

\* make_batch selected the tasks 1 and 2, the store answered that 1 is not
\* pending any more, and the batch of task 2 has the id 2
C14_Witness ==
    /\ result.kind = "Batch"
    /\ Len(batch) = 2
    /\ batch[1].id = 1
    /\ Len(result.tasks) = 1
    /\ result.id = 2

(***************************************************************************)
(* Claims about the structure of the TaskQueue and about drain             *)
(***************************************************************************)
\* by the history: the ids inserted and not yet taken out by a batch or a
\* drain (the tasks of an index leave it oldest first)
PendingByHistory == {i \in DOMAIN index_of : i > last_batched[index_of[i]]}

\* C15: the outer queue holds exactly the lists of index_tasks, each once;
\* no list is empty and each holds only tasks inserted for its own index;
\* is_empty() is true exactly when no inserted task is left pending.
C15_QueueAndMapping ==
    /\ Range(tasks.queue) = DOMAIN tasks.index_tasks
    /\ Len(tasks.queue) = Cardinality(DOMAIN tasks.index_tasks)
    /\ \A u \in DOMAIN tasks.index_tasks :
          /\ tasks.index_tasks[u] # <<>>
          /\ \A t \in Range(tasks.index_tasks[u]) : index_of[t.id] = u
    /\ PendingIds(tasks) = PendingByHistory
    /\ IsEmpty(tasks) <=> PendingByHistory = {}

\* head_mut has emptied the list of one index, of two tasks or more, and
\* neither index_tasks nor the queue holds it, while the other index is there
C15_Witness ==
    /\ Len(batch) >= 2
    /\ batch[1].index \notin DOMAIN tasks.index_tasks
    /\ batch[1].index \notin Range(tasks.queue)
    /\ tasks.queue # <<>>

\* the ids of b, in the order of b
BatchIds(b) == [k \in 1..Len(b) |-> b[k].id]

Ascending(ids) == \A i, j \in DOMAIN ids : i < j => ids[i] < ids[j]

\* every task inserted for the index of the head list is still in that list
NeverPopped(tq) ==
    LET head == HeapPeek(tq.queue)
    IN Ids(HeadList(tq)) = {i \in DOMAIN index_of : index_of[i] = head}

\* C17, as claimed: a drain yields the ids of the list in ascending order,
\* whatever pushes and pops the list has seen.
C17_Original ==
    [][(QueueDrain /\ tasks.queue # <<>>) => Ascending(BatchIds(batch'))]_vars

\* C17: a drain yields every id of the head list once, the smallest first;
\* the ids come in ascending order when nothing was popped from the list.
C17_DrainOrder ==
    [][(QueueDrain /\ tasks.queue # <<>>)
          => /\ Len(batch') = Cardinality(Ids(HeadList(tasks)))
             /\ Range(BatchIds(batch')) = Ids(HeadList(tasks))
             /\ batch'[1].id = SetMin(Ids(HeadList(tasks)))
             /\ NeverPopped(tasks) => Ascending(BatchIds(batch'))]_vars

\* a drain that yielded 1, 3, 2, 4: the list held 0 to 4 and 0 was popped
C17_Witness ==
    /\ BatchIds(batch) = <<1, 3, 2, 4>>
    /\ IsEmpty(tasks)

PendingCount(tq) ==
    LET RECURSIVE sum(_)
        sum(S) == IF S = {} THEN 0
                  ELSE LET u == CHOOSE x \in S : TRUE
                       IN Len(tq.index_tasks[u]) + sum(S \ {u})
    IN sum(DOMAIN tq.index_tasks)

\* C19: the tasks a fetch registers were never inserted before, the tasks of
\* a returned batch were never returned before, no id is twice in the queue
\* and no id returned in a batch is in the queue, also when the store still
\* has it unfinished.
C19_AtMostOnce ==
    [][/\ PendingCount(tasks) = Cardinality(PendingIds(tasks))
       /\ PendingIds(tasks) \cap returned = {}
       /\ (\E pending_fails \in BOOLEAN : PrepareBatch(pending_fails))
            => /\ Ids(ListTasks(store, next_fetched_task_id))
                      \cap DOMAIN index_of = {}
               /\ result'.kind = "Batch"
                    => Ids(result'.tasks) \cap returned = {}]_vars

\* a batch is returned while a task returned in an earlier batch is still
\* unfinished in the store
C19_Witness ==
    /\ result.kind = "Batch"
    /\ \E i \in returned : i < result.id /\ ~IsFinished(store[i + 1])

\* C20: when tasks are finished only by the performer, after they were
\* returned in a batch, prepare never panics: the store filters nothing out
\* of what make_batch selected, and a returned batch holds every selected id.
C20_NoInvalidBatch ==
    /\ result.kind # "Panic"
    /\ \A t \in AllPending(tasks) : ~IsFinished(store[t.id + 1])
    /\ result.kind = "Batch" => processing = BatchIds(batch)

\* a batch of two tasks returned after the performer finished an earlier one
C20_Witness ==
    /\ result.kind = "Batch"
    /\ Len(result.tasks) = 2
    /\ result.id = 1
    /\ IsFinished(store[1])

====
